---- MODULE Spec2Model ----
(***************************************************************************)
(* A model of tictactoe.py: the GameBoard class (grid, insert_symbol, the  *)
(* row / column / diagonal scans, get_winner), the minimax search of Game  *)
(* (eval_play, ai_plays) and the turn loop realise_game_loop.              *)
(*                                                                         *)
(* A GameBoard object is a record [no_rows, no_columns, number_to_win,     *)
(* game_board]; game_board[row][column] is indexed from 0 like the Python  *)
(* list of lists.  A cell holds " ", "X" or "O".                           *)
(***************************************************************************)
EXTENDS Integers, Sequences, FiniteSets, TLC

VARIABLES new_board, turn, pc, ret, outcome, ai_player, heap, stack

vars == <<new_board, turn, pc, ret, outcome, ai_player, heap, stack>>

-----------------------------------------------------------------------------
(* Bounds of the model *)

\* boards of the board specification have 1..MaxRows rows
MaxRows == 3
\* ... and 1..MaxColumns columns
MaxColumns == 3
\* ... and at most MaxCells cells
MaxCells == 9
\* win lengths are 1..MaxWin
MaxWin == 3
\* ai_plays is tried alone on the 3x3 boards with at most MaxEmpty empty cells
MaxEmpty == 5
\* the run of ai_plays with its objects and call frames is followed on the
\* 3x3 boards with at most MaxCopyEmpty empty cells
MaxCopyEmpty == 4

-----------------------------------------------------------------------------
(* Constants of the program *)

MAX_DEPTH == 50
PLAYER_X_WON == 100
PLAYER_O_WON == 0 - 100
NO_ONE_WON == 0
\* Game.__init__: GameBoard(3, 3, 3)
DefaultSize == 3
\* the alpha-beta window of ai_plays is -INFINITE .. INFINITE
INFINITE == 999999

Max(a, b) == IF a >= b THEN a ELSE b
Min(a, b) == IF a <= b THEN a ELSE b

-----------------------------------------------------------------------------
(* GameBoard *)

\* GameBoard.__init__: every cell " "
GameBoard(no_columns, no_rows, number_to_win) ==
    [no_columns |-> no_columns,
     no_rows |-> no_rows,
     game_board |-> [r \in 0..(no_rows - 1) |-> [c \in 0..(no_columns - 1) |-> " "]],
     number_to_win |-> number_to_win]

\* Python list indexing: a negative index i of a list of length n reads
\* element n + i; an index outside -n .. n-1 raises IndexError
IndexInRange(i, n) == (0 - n) <= i /\ i < n
ListIndex(i, n) == IF i < 0 THEN n + i ELSE i

\* insert_symbol taking row and column as counted from 1, as the human enters them
insert_symbol_one_based(board, row, column, symbol) ==
    IF row >= board.no_rows \/ column >= board.no_columns
    THEN [raised |-> FALSE, ret |-> FALSE, board |-> board]
    ELSE LET r == ListIndex(row - 1, board.no_rows)
             c == ListIndex(column - 1, board.no_columns)
         IN  IF ~(r \in 0..(board.no_rows - 1) /\ c \in 0..(board.no_columns - 1))
             THEN [raised |-> TRUE, ret |-> FALSE, board |-> board]
             ELSE IF board.game_board[r][c] # " "
             THEN [raised |-> FALSE, ret |-> FALSE, board |-> board]
             ELSE [raised |-> FALSE, ret |-> TRUE,
                   board |-> [board EXCEPT !.game_board[r][c] = symbol]]

\* insert_symbol without the test of the cell being empty
insert_symbol_overwriting(board, row, column, symbol) ==
    IF row >= board.no_rows \/ column >= board.no_columns
    THEN [raised |-> FALSE, ret |-> FALSE, board |-> board]
    ELSE IF ~(IndexInRange(row, board.no_rows) /\ IndexInRange(column, board.no_columns))
    THEN [raised |-> TRUE, ret |-> FALSE, board |-> board]
    ELSE [raised |-> FALSE, ret |-> TRUE,
          board |-> [board EXCEPT !.game_board[ListIndex(row, board.no_rows)]
                                              [ListIndex(column, board.no_columns)] = symbol]]

\* insert_symbol: the returned value and the board afterwards.
\* raised = TRUE stands for the IndexError of game_board[row][column].
insert_symbol(board, row, column, symbol) ==
    IF row >= board.no_rows \/ column >= board.no_columns
    THEN [raised |-> FALSE, ret |-> FALSE, board |-> board]
    ELSE IF ~(IndexInRange(row, board.no_rows) /\ IndexInRange(column, board.no_columns))
    THEN [raised |-> TRUE, ret |-> FALSE, board |-> board]
    ELSE LET r == ListIndex(row, board.no_rows)
             c == ListIndex(column, board.no_columns)
         IN  IF board.game_board[r][c] # " "
             THEN [raised |-> FALSE, ret |-> FALSE, board |-> board]
             ELSE [raised |-> FALSE, ret |-> TRUE,
                   board |-> [board EXCEPT !.game_board[r][c] = symbol]]

is_every_field_filled(board) ==
    \A r \in 0..(board.no_rows - 1) : \A c \in 0..(board.no_columns - 1) :
        board.game_board[r][c] # " "

\* The scan shared by _examine_row, _examine_column and the four diagonal
\* scans: line is the sequence of cells visited, k the next position, and
\* number_of_x / number_of_o the running counters.
\* the scan reporting a run one cell short of number_to_win
RECURSIVE ScanFromOneShort(_, _, _, _, _)
ScanFromOneShort(line, k, number_of_x, number_of_o, number_to_win) ==
    IF k > Len(line) THEN NO_ONE_WON
    ELSE LET x == IF line[k] = "X" THEN number_of_x + 1 ELSE 0
             o == IF line[k] = "O" THEN number_of_o + 1 ELSE 0
         IN  IF x = number_to_win - 1 THEN PLAYER_X_WON
             ELSE IF o = number_to_win - 1 THEN PLAYER_O_WON
             ELSE ScanFromOneShort(line, k + 1, x, o, number_to_win)

RECURSIVE ScanFrom(_, _, _, _, _)
ScanFrom(line, k, number_of_x, number_of_o, number_to_win) ==
    IF k > Len(line) THEN NO_ONE_WON
    ELSE LET x == IF line[k] = "X" THEN number_of_x + 1 ELSE 0
             o == IF line[k] = "O" THEN number_of_o + 1 ELSE 0
         IN  IF x = number_to_win THEN PLAYER_X_WON
             ELSE IF o = number_to_win THEN PLAYER_O_WON
             ELSE ScanFrom(line, k + 1, x, o, number_to_win)

_examine_row(board, row_index) ==
    ScanFrom([k \in 1..board.no_columns |-> board.game_board[row_index][k - 1]],
             1, 0, 0, board.number_to_win)

RECURSIVE SumRows(_, _)
SumRows(board, row_index) ==
    IF row_index >= board.no_rows THEN 0
    ELSE _examine_row(board, row_index) + SumRows(board, row_index + 1)

_examine_rows(board) == NO_ONE_WON + SumRows(board, 0)

_examine_column(board, column_index) ==
    ScanFrom([k \in 1..board.no_rows |-> board.game_board[k - 1][column_index]],
             1, 0, 0, board.number_to_win)

RECURSIVE SumColumns(_, _)
SumColumns(board, column_index) ==
    IF column_index >= board.no_columns THEN 0
    ELSE _examine_column(board, column_index) + SumColumns(board, column_index + 1)

_examine_columns(board) == NO_ONE_WON + SumColumns(board, 0)

\* The cells a diagonal's while loop visits from (j, i): i moves by di, j by 1,
\* while 0 <= i < no_columns and j < no_rows.
DiagLength(board, j, i, di) ==
    IF i < 0 \/ i >= board.no_columns \/ j >= board.no_rows THEN 0
    ELSE Min(board.no_rows - j,
             IF di > 0 THEN board.no_columns - i ELSE i + 1)

DiagLine(board, j, i, di) ==
    [k \in 1..DiagLength(board, j, i, di) |->
        board.game_board[j + (k - 1)][i + di * (k - 1)]]

ScanDiag(board, j, i, di) ==
    ScanFrom(DiagLine(board, j, i, di), 1, 0, 0, board.number_to_win)

\* for i in range(0, max_start_column): the first diagonal with a run returns
RECURSIVE LeftToRightUpperFrom(_, _, _)
LeftToRightUpperFrom(board, i, max_start_column) ==
    IF i >= max_start_column THEN NO_ONE_WON
    ELSE LET found == ScanDiag(board, 0, i, 1)
         IN  IF found # NO_ONE_WON THEN found
             ELSE LeftToRightUpperFrom(board, i + 1, max_start_column)

_left_to_right_upper_diag(board, max_start_column) ==
    LeftToRightUpperFrom(board, 0, max_start_column)

\* for j in range(1, max_start_row)
RECURSIVE LeftToRightLowerFrom(_, _, _)
LeftToRightLowerFrom(board, j, max_start_row) ==
    IF j >= max_start_row THEN NO_ONE_WON
    ELSE LET found == ScanDiag(board, j, 0, 1)
         IN  IF found # NO_ONE_WON THEN found
             ELSE LeftToRightLowerFrom(board, j + 1, max_start_row)

_left_to_right_lower_diag(board, max_start_row) ==
    LeftToRightLowerFrom(board, 1, max_start_row)

\* for i in range(no_columns - 1, max_start_column - 1, -1)
RECURSIVE RightToLeftUpperFrom(_, _, _)
RightToLeftUpperFrom(board, i, max_start_column) ==
    IF i <= max_start_column - 1 THEN NO_ONE_WON
    ELSE LET found == ScanDiag(board, 0, i, 0 - 1)
         IN  IF found # NO_ONE_WON THEN found
             ELSE RightToLeftUpperFrom(board, i - 1, max_start_column)

\* the scan of the upper right-to-left diagonals starting one column too far left
_right_to_left_upper_diag_late_start(board, max_start_column) ==
    RightToLeftUpperFrom(board, board.no_columns - 2, max_start_column)

_right_to_left_upper_diag(board, max_start_column) ==
    RightToLeftUpperFrom(board, board.no_columns - 1, max_start_column)

\* for j in range(1, max_start_row), from the last column
RECURSIVE RightToLeftLowerFrom(_, _, _)
RightToLeftLowerFrom(board, j, max_start_row) ==
    IF j >= max_start_row THEN NO_ONE_WON
    ELSE LET found == ScanDiag(board, j, board.no_columns - 1, 0 - 1)
         IN  IF found # NO_ONE_WON THEN found
             ELSE RightToLeftLowerFrom(board, j + 1, max_start_row)

_right_to_left_lower_diag(board, max_start_row) ==
    RightToLeftLowerFrom(board, 1, max_start_row)

_examine_diagonals(board) ==
    LET max_start_column == board.no_columns - board.number_to_win + 1
        max_start_row == board.no_rows - board.number_to_win + 1
    IN  NO_ONE_WON
        + _left_to_right_upper_diag(board, max_start_column)
        + _left_to_right_lower_diag(board, max_start_row)
        + _right_to_left_upper_diag(board, max_start_column)
        + _right_to_left_lower_diag(board, max_start_row)

get_winner(board) ==
    NO_ONE_WON + _examine_rows(board) + _examine_columns(board)
    + _examine_diagonals(board)

\* GameBoard.__iter__: the cells in row-major order; cell number idx (from 0)
\* is (idx \div no_columns, idx % no_columns)
NumberOfFields(board) == board.no_rows * board.no_columns
RowOf(board, idx) == idx \div board.no_columns
ColumnOf(board, idx) == idx % board.no_columns
ElementAt(board, idx) == board.game_board[RowOf(board, idx)][ColumnOf(board, idx)]

\* the hypothetical move written with the symbol of the computer, whoever moves
NextBoardOfO(board, idx, player) ==
    [board EXCEPT !.game_board[RowOf(board, idx)][ColumnOf(board, idx)] = "O"]

\* next_board = copy.deepcopy(board); next_board.game_board[row][column] = player
NextBoard(board, idx, player) ==
    [board EXCEPT !.game_board[RowOf(board, idx)][ColumnOf(board, idx)] = player]

-----------------------------------------------------------------------------
(* Game: the search *)

\* next_player that never hands the move to X
NextPlayerAlwaysO(player) == IF player = "X" THEN "O" ELSE "O"

NextPlayer(player) == IF player = "O" THEN "X" ELSE "O"

\* eval_play, with its two loops: maximize_play(board, idx, ...) is the rest of
\* the loop of player "X" from cell idx on with the current max_eval and alpha,
\* minimize_play the rest of the loop of the other player.
RECURSIVE eval_play(_, _, _, _, _)
RECURSIVE maximize_play(_, _, _, _, _, _, _)
RECURSIVE minimize_play(_, _, _, _, _, _, _)

\* the loop of player "X" with the test of the break inverted
maximize_play_inverted(board, player, idx, depth, max_eval, alpha, beta) ==
    IF idx >= NumberOfFields(board) THEN max_eval
    ELSE IF ElementAt(board, idx) # " "
    THEN maximize_play(board, player, idx + 1, depth, max_eval, alpha, beta)
    ELSE LET eval_param == eval_play(NextBoard(board, idx, player),
                                     NextPlayer(player), depth + 1, alpha, beta)
         IN  IF beta > Max(alpha, eval_param)
             THEN Max(max_eval, eval_param)
             ELSE maximize_play(board, player, idx + 1, depth,
                                Max(max_eval, eval_param), Max(alpha, eval_param), beta)

maximize_play(board, player, idx, depth, max_eval, alpha, beta) ==
    IF idx >= NumberOfFields(board) THEN max_eval
    ELSE IF ElementAt(board, idx) # " "
    THEN maximize_play(board, player, idx + 1, depth, max_eval, alpha, beta)
    ELSE LET eval_param == eval_play(NextBoard(board, idx, player),
                                     NextPlayer(player), depth + 1, alpha, beta)
         IN  IF beta <= Max(alpha, eval_param)
             THEN Max(max_eval, eval_param)
             ELSE maximize_play(board, player, idx + 1, depth,
                                Max(max_eval, eval_param), Max(alpha, eval_param), beta)

minimize_play(board, player, idx, depth, min_eval, alpha, beta) ==
    IF idx >= NumberOfFields(board) THEN min_eval
    ELSE IF ElementAt(board, idx) # " "
    THEN minimize_play(board, player, idx + 1, depth, min_eval, alpha, beta)
    ELSE LET eval_param == eval_play(NextBoard(board, idx, player),
                                     NextPlayer(player), depth + 1, alpha, beta)
         IN  IF Min(beta, eval_param) <= alpha
             THEN Min(min_eval, eval_param)
             ELSE minimize_play(board, player, idx + 1, depth,
                                Min(min_eval, eval_param), alpha, Min(beta, eval_param))

\* eval_play testing for the full board before it asks for the winner
eval_play_full_first(board, player, depth, alpha, beta) ==
    LET who_is_winner == get_winner(board)
    IN  IF is_every_field_filled(board) THEN 0
        ELSE IF who_is_winner # 0 THEN who_is_winner
        ELSE IF depth > MAX_DEPTH THEN 0
        ELSE IF player = "X"
             THEN maximize_play(board, player, 0, depth, 0 - INFINITE, alpha, beta)
             ELSE minimize_play(board, player, 0, depth, INFINITE, alpha, beta)

eval_play(board, player, depth, alpha, beta) ==
    LET who_is_winner == get_winner(board)
    IN  IF who_is_winner # 0 THEN who_is_winner
        ELSE IF is_every_field_filled(board) THEN 0
        ELSE IF depth > MAX_DEPTH THEN 0
        ELSE IF player = "X"
             THEN maximize_play(board, player, 0, depth, 0 - INFINITE, alpha, beta)
             ELSE minimize_play(board, player, 0, depth, INFINITE, alpha, beta)

\* ai_plays: possible_states, the list of (next_board, score) of the empty
\* cells in row-major order
RECURSIVE PossibleStatesFrom(_, _, _)
PossibleStatesFrom(game_board, player, idx) ==
    IF idx >= NumberOfFields(game_board) THEN <<>>
    ELSE IF ElementAt(game_board, idx) # " "
    THEN PossibleStatesFrom(game_board, player, idx + 1)
    ELSE LET next_board == NextBoard(game_board, idx, player)
         IN  <<[board |-> next_board,
                score |-> eval_play(next_board, NextPlayer(player), 0 + 1,
                                    0 - INFINITE, INFINITE)]>>
             \o PossibleStatesFrom(game_board, player, idx + 1)

\* min() keeping the last of the elements with the least score
RECURSIVE MinByScoreLast(_, _, _)
MinByScoreLast(possible_states, k, best) ==
    IF k > Len(possible_states) THEN best
    ELSE MinByScoreLast(possible_states, k + 1,
                        IF possible_states[k].score <= best.score
                        THEN possible_states[k] ELSE best)

\* min(possible_states, key = score): the first element with the least score
RECURSIVE MinByScore(_, _, _)
MinByScore(possible_states, k, best) ==
    IF k > Len(possible_states) THEN best
    ELSE MinByScore(possible_states, k + 1,
                    IF possible_states[k].score < best.score
                    THEN possible_states[k] ELSE best)

\* ai_plays: the board it installs as self.new_board.  min() of an empty list
\* raises ValueError: HasPossibleState is false then.
HasPossibleState(game_board) == ~is_every_field_filled(game_board)

\* ai_plays taking max() of the scores
RECURSIVE MaxByScore(_, _, _)
MaxByScore(possible_states, k, best) ==
    IF k > Len(possible_states) THEN best
    ELSE MaxByScore(possible_states, k + 1,
                    IF possible_states[k].score > best.score
                    THEN possible_states[k] ELSE best)

ai_plays_max(player, game_board) ==
    LET possible_states == PossibleStatesFrom(game_board, player, 0)
    IN  MaxByScore(possible_states, 2, possible_states[1]).board

\* ai_plays taking the first empty cell, whatever its score
ai_plays_first(player, game_board) ==
    PossibleStatesFrom(game_board, player, 0)[1].board

ai_plays(player, game_board) ==
    LET possible_states == PossibleStatesFrom(game_board, player, 0)
    IN  MinByScore(possible_states, 2, possible_states[1]).board

-----------------------------------------------------------------------------
(* Game: the turn loop realise_game_loop, one action per step *)

\* the integers tried as an index into a list of length n: the indices of
\* Python, -n .. n-1, and the next integer below and above them
Indices(n) == (0 - n - 1)..n

\* what insert_symbol handed back, as the variable ret records it
Returned(result) ==
    IF result.raised THEN "IndexError" ELSE IF result.ret THEN "True" ELSE "False"

\* Game.__init__
Init ==
    /\ turn = 0
    /\ new_board = GameBoard(DefaultSize, DefaultSize, DefaultSize)
    /\ pc = "while"
    /\ ret = "None"
    /\ outcome = "None"
    /\ ai_player = "O"
    /\ heap = <<>>
    /\ stack = <<>>

\* while game_continues: self.turn += 1; human_player_turn = self.turn % 2 == 1
NextTurn ==
    /\ pc = "while"
    /\ turn' = turn + 1
    /\ pc' = IF turn' % 2 = 1 THEN "human" ELSE "ai"
    /\ UNCHANGED <<new_board, ret, outcome, ai_player, heap, stack>>

\* the inner loop left after one input, accepted or not
HumanInputNoRetry(choice_x, choice_y) ==
    /\ pc = "human"
    /\ LET result == insert_symbol(new_board, choice_x - 1, choice_y - 1, "X")
       IN  /\ new_board' = result.board
           /\ ret' = Returned(result)
           /\ pc' = IF result.raised THEN "raised" ELSE "result"
    /\ UNCHANGED <<turn, outcome, ai_player, heap, stack>>

\* one pass of the inner loop: get_human_input returns (choice_x - 1,
\* choice_y - 1) and insert_symbol is called with them; the loop repeats
\* while insert_symbol returns False, and an IndexError ends the program
HumanInput(choice_x, choice_y) ==
    /\ pc = "human"
    /\ LET result == insert_symbol(new_board, choice_x - 1, choice_y - 1, "X")
       IN  /\ new_board' = result.board
           /\ ret' = Returned(result)
           /\ pc' = IF result.raised THEN "raised"
                    ELSE IF result.ret THEN "result" ELSE "human"
    /\ UNCHANGED <<turn, outcome, ai_player, heap, stack>>

\* int(input(...)) of a text that is no integer raises ValueError
HumanInputNotInt ==
    /\ pc = "human"
    /\ pc' = "raised"
    /\ UNCHANGED <<new_board, turn, ret, outcome, ai_player, heap, stack>>

\* self.ai_plays("O", self.new_board)
AiPlays ==
    /\ pc = "ai"
    /\ IF HasPossibleState(new_board)
       THEN /\ new_board' = ai_plays(ai_player, new_board)
            /\ pc' = "result"
       ELSE /\ new_board' = new_board
            /\ pc' = "raised"
    /\ UNCHANGED <<turn, ret, outcome, ai_player, heap, stack>>

\* the loop going on after a win
ShowResultGoesOn ==
    /\ pc = "result"
    /\ LET winner == get_winner(new_board)
       IN  /\ outcome' = IF winner > 0 THEN "X wins"
                         ELSE IF winner < 0 THEN "O wins"
                         ELSE IF is_every_field_filled(new_board) THEN "No one wins"
                         ELSE outcome
           /\ pc' = IF ~is_every_field_filled(new_board) THEN "while" ELSE "end"
    /\ UNCHANGED <<new_board, turn, ret, ai_player, heap, stack>>

\* lines 160-170: the winner is announced, or the draw, or the loop goes on
ShowResult ==
    /\ pc = "result"
    /\ LET winner == get_winner(new_board)
       IN  /\ outcome' = IF winner > 0 THEN "X wins"
                         ELSE IF winner < 0 THEN "O wins"
                         ELSE IF is_every_field_filled(new_board) THEN "No one wins"
                         ELSE outcome
           /\ pc' = IF winner = 0 /\ ~is_every_field_filled(new_board)
                    THEN "while" ELSE "end"
    /\ UNCHANGED <<new_board, turn, ret, ai_player, heap, stack>>

Next ==
    \/ NextTurn
    \/ \E choice_x \in Indices(new_board.no_rows), choice_y \in Indices(new_board.no_columns) :
          HumanInput(choice_x + 1, choice_y + 1)
    \/ HumanInputNotInt
    \/ AiPlays
    \/ ShowResult

Spec == Init /\ [][Next]_vars

\* The loop with its steps taken whenever they can be: the interpreter runs
\* every statement it reaches, and the human, asked for a move, enters sooner
\* or later one that insert_symbol accepts.
HumanAccepted ==
    \E choice_x \in Indices(new_board.no_rows), choice_y \in Indices(new_board.no_columns) :
        HumanInput(choice_x + 1, choice_y + 1) /\ ret' = "True"

\* the call of ai_plays returns (or raises): the step AiPlays takes, told by
\* where it starts and ends
AiReturns ==
    /\ pc = "ai"
    /\ pc' \in {"result", "raised"}
    /\ new_board' \in {new_board}
                      \cup {NextBoard(new_board, idx, ai_player) :
                               idx \in 0..(NumberOfFields(new_board) - 1)}
    /\ UNCHANGED <<turn, ret, outcome, ai_player, heap, stack>>

SpecLive ==
    /\ Spec
    /\ WF_vars(NextTurn)
    /\ WF_vars(HumanAccepted)
    /\ WF_vars(AiReturns)
    /\ WF_vars(ShowResult)

-----------------------------------------------------------------------------
(* The board alone: a GameBoard of any shape within the bounds, and any    *)
(* sequence of insert_symbol calls on it                                   *)

Shapes ==
    {s \in (1..MaxRows) \X (1..MaxColumns) \X (1..MaxWin) : s[1] * s[2] <= MaxCells}

InitBoard ==
    /\ \E s \in Shapes : new_board = GameBoard(s[2], s[1], s[3])
    /\ turn = 0
    /\ pc = "board"
    /\ ret = "None"
    /\ outcome = "None"
    /\ ai_player = "O"
    /\ heap = <<>>
    /\ stack = <<>>

InsertSymbol(row, column, symbol) ==
    /\ pc = "board"
    /\ LET result == insert_symbol(new_board, row, column, symbol)
       IN  /\ new_board' = result.board
           /\ ret' = Returned(result)
    /\ UNCHANGED <<turn, pc, outcome, ai_player, heap, stack>>

NextBoardCall ==
    \E row \in Indices(new_board.no_rows), column \in Indices(new_board.no_columns),
       symbol \in {"X", "O"} :
        InsertSymbol(row, column, symbol)

SpecBoard == InitBoard /\ [][NextBoardCall]_vars

-----------------------------------------------------------------------------
(* The search alone: ai_plays called once, for either player, on any board *)
(* of the default shape with 1..MaxEmpty empty cells                       *)

CountOf(board, symbol) ==
    Cardinality({idx \in 0..(NumberOfFields(board) - 1) : ElementAt(board, idx) = symbol})

DefaultBoards ==
    {[GameBoard(DefaultSize, DefaultSize, DefaultSize) EXCEPT !.game_board = g] :
        g \in [0..(DefaultSize - 1) -> [0..(DefaultSize - 1) -> {" ", "X", "O"}]]}

InitAi ==
    /\ new_board \in {b \in DefaultBoards : CountOf(b, " ") \in 1..MaxEmpty}
    /\ ai_player \in {"X", "O"}
    /\ turn = 0
    /\ pc = "ai"
    /\ ret = "None"
    /\ outcome = "None"
    /\ heap = <<>>
    /\ stack = <<>>

SpecAi == InitAi /\ [][AiPlays]_vars

-----------------------------------------------------------------------------
(* The boards the search visits: from the empty board of the default shape *)
(* eval_play goes from a board to each board with one more symbol of the   *)
(* player to move, unless the board has a winner, is full or lies deeper   *)
(* than MAX_DEPTH.  turn is the depth: the number of symbols placed.       *)

InitSearch ==
    /\ new_board = GameBoard(DefaultSize, DefaultSize, DefaultSize)
    /\ ai_player = "X"
    /\ turn = 0
    /\ pc = "search"
    /\ ret = "None"
    /\ outcome = "None"
    /\ heap = <<>>
    /\ stack = <<>>

\* lines 64-81 and 91-97: past the three returns, the copy of the board with
\* player in the empty cell idx is handed to eval_play with the other player
EvalPlayChild(idx) ==
    /\ pc = "search"
    /\ get_winner(new_board) = 0
    /\ ~is_every_field_filled(new_board)
    /\ ~(turn > MAX_DEPTH)
    /\ ElementAt(new_board, idx) = " "
    /\ new_board' = NextBoard(new_board, idx, ai_player)
    /\ ai_player' = NextPlayer(ai_player)
    /\ turn' = turn + 1
    /\ UNCHANGED <<pc, ret, outcome, heap, stack>>

NextSearch ==
    \E idx \in 0..(NumberOfFields(new_board) - 1) : EvalPlayChild(idx)

SpecSearch == InitSearch /\ [][NextSearch]_vars

-----------------------------------------------------------------------------
(* The terminal checks alone: eval_play called once on any board of the    *)
(* default shape, and lines 160-170 of the loop run once on any such board *)

\* the windows (alpha, beta) tried: the one of ai_plays, a narrow one, an
\* empty one and an inverted one
Windows ==
    {<<0 - INFINITE, INFINITE>>, <<PLAYER_O_WON, PLAYER_X_WON>>,
     <<NO_ONE_WON, NO_ONE_WON>>, <<PLAYER_X_WON, PLAYER_O_WON>>}

\* the depths tried: the last one searched and the first one cut off, and,
\* on the boards where the first two checks return, the depth of ai_plays
Depths(board) ==
    {MAX_DEPTH, MAX_DEPTH + 1}
    \cup (IF get_winner(board) # 0 \/ is_every_field_filled(board)
          THEN {0 + 1} ELSE {})

InitEval ==
    /\ new_board \in DefaultBoards
    /\ pc \in {"eval", "result"}
    /\ ai_player = "O"
    /\ turn = 0
    /\ ret = "None"
    /\ outcome = "None"
    /\ heap = <<>>
    /\ stack = <<>>

\* ret records the arguments of the call and the value it returned
EvalPlay(player, depth, alpha, beta) ==
    /\ pc = "eval"
    /\ ret' = [player |-> player, depth |-> depth, alpha |-> alpha, beta |-> beta,
               value |-> eval_play(new_board, player, depth, alpha, beta)]
    /\ pc' = "evaluated"
    /\ UNCHANGED <<new_board, turn, outcome, ai_player, heap, stack>>

NextEval ==
    \/ \E player \in {"X", "O"}, depth \in Depths(new_board), window \in Windows :
          EvalPlay(player, depth, window[1], window[2])
    \/ ShowResult

SpecEval == InitEval /\ [][NextEval]_vars

-----------------------------------------------------------------------------
(* The objects of the search: one call of ai_plays followed statement by   *)
(* statement.  heap is the sequence of GameBoard objects made so far, an   *)
(* object being named by its place in heap; stack is the sequence of call  *)
(* frames of ai_plays and eval_play, the running one last.  A frame holds  *)
(* the arguments (board is the name of an object), the place in the loop   *)
(* over the cells (idx), max_eval / min_eval (eval), the name of the       *)
(* current next_board, where the frame stands (at) and, for ai_plays, the  *)
(* list possible_states.  entry is what the object board held when the     *)
(* call was made: no statement reads it.                                   *)

\* next_board = board: a second name of the same object, no copy
deepcopy_aliasing(objects, board) ==
    [heap |-> objects, id |-> board]

\* copy.deepcopy(board): a new object with the contents of board
deepcopy(objects, board) ==
    [heap |-> Append(objects, objects[board]), id |-> Len(objects) + 1]

Frame(fn, board, player, depth, alpha, beta, at, entry) ==
    [fn |-> fn, board |-> board, player |-> player, depth |-> depth,
     alpha |-> alpha, beta |-> beta, idx |-> 0, eval |-> 0, next_board |-> 0,
     at |-> at, possible_states |-> <<>>, entry |-> entry]

Top == stack[Len(stack)]
SetTop(frame) == [stack EXCEPT ![Len(stack)] = frame]

\* the boards ai_plays is called on: X has moved as often as O or once more,
\* and the player is the one to move
CopyBoards ==
    {b \in DefaultBoards :
        /\ CountOf(b, " ") \in 1..MaxCopyEmpty
        /\ CountOf(b, "X") - CountOf(b, "O") \in {0, 1}}

\* ai_plays(player, game_board) has been called: possible_states = [],
\* actual_tree_depth = 0, and the loop over game_board is about to start
InitCopy ==
    /\ new_board \in CopyBoards
    /\ ai_player = IF CountOf(new_board, "X") = CountOf(new_board, "O") THEN "X" ELSE "O"
    /\ heap = <<new_board>>
    /\ stack = <<Frame("ai_plays", 1, ai_player, 0, 0 - INFINITE, INFINITE,
                        "loop", new_board)>>
    /\ pc = "copy"
    /\ turn = 0
    /\ ret = "None"
    /\ outcome = "None"

\* eval_play, lines 64-75 and 90: the three returns, or the start of the loop
TerminalChecks ==
    /\ pc = "copy" /\ stack # <<>>
    /\ Top.fn = "eval_play" /\ Top.at = "check"
    /\ LET board == heap[Top.board]
           who_is_winner == get_winner(board)
       IN  stack' = SetTop(
               IF who_is_winner # 0
               THEN [Top EXCEPT !.at = "return", !.eval = who_is_winner]
               ELSE IF is_every_field_filled(board)
               THEN [Top EXCEPT !.at = "return", !.eval = 0]
               ELSE IF Top.depth > MAX_DEPTH
               THEN [Top EXCEPT !.at = "return", !.eval = 0]
               ELSE [Top EXCEPT !.at = "loop",
                                !.eval = IF Top.player = "X" THEN 0 - INFINITE
                                         ELSE INFINITE])
    /\ UNCHANGED <<new_board, turn, pc, ret, outcome, ai_player, heap>>

\* one pass of "for row_index, column_index, element in board" (lines 76-82,
\* 91-97, 117-132): the generator reads the cell idx of the object board as
\* it is now; an empty cell has the board copied, the copy written and
\* eval_play called on the copy
LoopStep ==
    /\ pc = "copy" /\ stack # <<>>
    /\ Top.at = "loop"
    /\ IF Top.idx >= NumberOfFields(heap[Top.board])
       THEN /\ stack' = SetTop([Top EXCEPT !.at = "return"])
            /\ heap' = heap
       ELSE IF ElementAt(heap[Top.board], Top.idx) # " "
       THEN /\ stack' = SetTop([Top EXCEPT !.idx = @ + 1])
            /\ heap' = heap
       ELSE LET copied == deepcopy(heap, Top.board)
                next_board == copied.id
                written == [copied.heap EXCEPT
                               ![next_board] = NextBoard(@, Top.idx, Top.player)]
            IN  /\ heap' = written
                /\ stack' = Append(
                       SetTop([Top EXCEPT !.at = "called", !.next_board = next_board]),
                       Frame("eval_play", next_board, NextPlayer(Top.player),
                             Top.depth + 1, Top.alpha, Top.beta,
                             "check", written[next_board]))
    /\ UNCHANGED <<new_board, turn, pc, ret, outcome, ai_player>>

\* eval_play returns eval to the frame below: lines 83-86 or 98-101 there
\* (max_eval / min_eval, alpha / beta, the break), or the append of lines
\* 121-132 in ai_plays
ReturnEval ==
    /\ pc = "copy" /\ Len(stack) > 1
    /\ Top.fn = "eval_play" /\ Top.at = "return"
    /\ LET eval_param == Top.eval
           caller == stack[Len(stack) - 1]
           resumed ==
               IF caller.fn = "ai_plays"
               THEN [caller EXCEPT
                        !.possible_states =
                            Append(@, [board |-> caller.next_board, score |-> eval_param]),
                        !.idx = @ + 1, !.at = "loop"]
               ELSE IF caller.player = "X"
               THEN [caller EXCEPT
                        !.eval = Max(@, eval_param),
                        !.alpha = Max(@, eval_param),
                        !.idx = @ + 1,
                        !.at = IF caller.beta <= Max(caller.alpha, eval_param)
                               THEN "return" ELSE "loop"]
               ELSE [caller EXCEPT
                        !.eval = Min(@, eval_param),
                        !.beta = Min(@, eval_param),
                        !.idx = @ + 1,
                        !.at = IF Min(caller.beta, eval_param) <= caller.alpha
                               THEN "return" ELSE "loop"]
       IN  stack' = Append(SubSeq(stack, 1, Len(stack) - 2), resumed)
    /\ UNCHANGED <<new_board, turn, pc, ret, outcome, ai_player, heap>>

\* ai_plays, lines 133-136: best_play is the board of the first element of
\* possible_states with the least score, and self.new_board names it
InstallBestPlay ==
    /\ pc = "copy" /\ stack # <<>>
    /\ Top.fn = "ai_plays" /\ Top.at = "return"
    /\ IF Top.possible_states = <<>>
       THEN /\ pc' = "raised"
            /\ new_board' = new_board
       ELSE /\ pc' = "done"
            /\ new_board' =
                  heap[MinByScore(Top.possible_states, 2, Top.possible_states[1]).board]
    /\ UNCHANGED <<turn, ret, outcome, ai_player, heap, stack>>

NextCopy ==
    \/ TerminalChecks
    \/ LoopStep
    \/ ReturnEval
    \/ InstallBestPlay

SpecCopy == InitCopy /\ [][NextCopy]_vars

-----------------------------------------------------------------------------
(* What the claims speak of, stated without the scans of the program *)

Rows(board) == 0..(board.no_rows - 1)
Columns(board) == 0..(board.no_columns - 1)
Symbols == {"X", "O"}
Other(symbol) == IF symbol = "X" THEN "O" ELSE "X"

\* the directions (row step, column step) of a row, a column and the two
\* families of diagonals
Straight == {<<0, 1>>, <<1, 0>>}
Diagonal == {<<1, 1>>, <<1, 0 - 1>>}

\* number_to_win cells from (r, c) in direction d all lie on the board and
\* hold symbol
RunAt(board, symbol, r, c, d) ==
    \A k \in 0..(board.number_to_win - 1) :
        /\ r + k * d[1] \in Rows(board)
        /\ c + k * d[2] \in Columns(board)
        /\ board.game_board[r + k * d[1]][c + k * d[2]] = symbol

HasRun(board, symbol, directions) ==
    \E r \in Rows(board), c \in Columns(board), d \in directions :
        RunAt(board, symbol, r, c, d)

Sign(n) == IF n > 0 THEN "X" ELSE IF n < 0 THEN "O" ELSE " "

IsDefaultShape(board) ==
    /\ board.no_rows = DefaultSize
    /\ board.no_columns = DefaultSize
    /\ board.number_to_win = DefaultSize

-----------------------------------------------------------------------------
(* C1: on the 3x3 board with win length 3, whenever at most one symbol has *)
(* three in a line, get_winner is > 0 exactly when X has three in a row,   *)
(* column or diagonal, < 0 exactly when O has, and 0 otherwise (so 0 with  *)
(* one or two X in a line, and 0 on a full board without a line, where     *)
(* is_every_field_filled is true exactly when no cell is empty).           *)
C1_WinnerOnDefaultBoard ==
    (pc = "board" /\ IsDefaultShape(new_board)) =>
        /\ (is_every_field_filled(new_board) <=> CountOf(new_board, " ") = 0)
        /\ ~(HasRun(new_board, "X", Straight \cup Diagonal)
             /\ HasRun(new_board, "O", Straight \cup Diagonal)) =>
               /\ get_winner(new_board) > 0
                     <=> HasRun(new_board, "X", Straight \cup Diagonal)
               /\ get_winner(new_board) < 0
                     <=> HasRun(new_board, "O", Straight \cup Diagonal)

\* a full 3x3 board without three in a line: a draw
C1_Witness ==
    /\ pc = "board" /\ IsDefaultShape(new_board)
    /\ is_every_field_filled(new_board)
    /\ ~HasRun(new_board, "X", Straight \cup Diagonal)
    /\ ~HasRun(new_board, "O", Straight \cup Diagonal)
    /\ get_winner(new_board) = 0

(* C2: on every board shape and for every win length >= 2, when one symbol *)
(* has a run of win-length cells along a diagonal of either family and the *)
(* other symbol has no run at all, get_winner is nonzero with the sign of  *)
(* the symbol that has the run.                                            *)
C2_DiagonalRunWins ==
    (pc = "board" /\ new_board.number_to_win >= 2) =>
        \A symbol \in Symbols :
            (/\ HasRun(new_board, symbol, Diagonal)
             /\ ~HasRun(new_board, Other(symbol), Straight \cup Diagonal))
            => Sign(get_winner(new_board)) = symbol

(* C3: insert_symbol with a row or column outside 0..rows-1 x 0..columns-1 *)
(* (negative ones included) or with the place of an occupied cell returns  *)
(* False and leaves the board as it was.                                   *)
C3_InvalidInsertRejected ==
    [][\A row \in Indices(new_board.no_rows), column \in Indices(new_board.no_columns),
          symbol \in Symbols :
          (/\ InsertSymbol(row, column, symbol)
           /\ \/ row \notin Rows(new_board)
              \/ column \notin Columns(new_board)
              \/ new_board.game_board[row][column] # " ")
          => (ret' = "False" /\ new_board' = new_board)]_vars

(* C4: insert_symbol with 0 <= row < rows, 0 <= column < columns and an    *)
(* empty cell there returns True, sets that cell to the symbol and leaves  *)
(* the other cells, the dimensions and the win length as they were.        *)
C4_ValidInsertFrame ==
    pc = "board" =>
        \A row \in Rows(new_board), column \in Columns(new_board), symbol \in Symbols :
            new_board.game_board[row][column] = " " =>
                LET result == insert_symbol(new_board, row, column, symbol)
                IN  /\ ~result.raised
                    /\ result.ret
                    /\ result.board.game_board[row][column] = symbol
                    /\ \A r \in Rows(new_board), c \in Columns(new_board) :
                          <<r, c>> # <<row, column>>
                          => result.board.game_board[r][c] = new_board.game_board[r][c]
                    /\ DOMAIN result.board.game_board = Rows(new_board)
                    /\ \A r \in Rows(new_board) :
                          DOMAIN result.board.game_board[r] = Columns(new_board)
                    /\ result.board.no_rows = new_board.no_rows
                    /\ result.board.no_columns = new_board.no_columns
                    /\ result.board.number_to_win = new_board.number_to_win

\* an accepted insert_symbol on a board that already held a symbol
C4_Witness ==
    /\ pc = "board" /\ ret = "True"
    /\ CountOf(new_board, "X") >= 1 /\ CountOf(new_board, "O") >= 1

-----------------------------------------------------------------------------
(* The claims about ai_plays *)

Fields(board) == 0..(NumberOfFields(board) - 1)
EmptyFields(board) == {idx \in Fields(board) : ElementAt(board, idx) = " "}

\* the score ai_plays gives to the move of player to field idx
ScoreOfMove(board, idx, symbol) ==
    eval_play(NextBoard(board, idx, symbol), NextPlayer(symbol), 1, 0 - INFINITE, INFINITE)

\* the lines of number_to_win fields of the board, each a set of field numbers
LinesOf(board) ==
    {{(r + k * d[1]) * board.no_columns + (c + k * d[2]) :
          k \in 0..(board.number_to_win - 1)} :
        <<r, c, d>> \in {t \in Rows(board) \X Columns(board) \X (Straight \cup Diagonal) :
            /\ t[1] + (board.number_to_win - 1) * t[3][1] \in Rows(board)
            /\ t[2] + (board.number_to_win - 1) * t[3][2] \in Columns(board)}}

\* line holds symbol everywhere but in one field, which is empty
OpenLine(board, line, symbol) ==
    /\ Cardinality({idx \in line : ElementAt(board, idx) = symbol}) = Cardinality(line) - 1
    /\ Cardinality({idx \in line : ElementAt(board, idx) = " "}) = 1

HasOpenLine(board, symbol) == \E line \in LinesOf(board) : OpenLine(board, line, symbol)

NoRun(board) ==
    /\ ~HasRun(board, "X", Straight \cup Diagonal)
    /\ ~HasRun(board, "O", Straight \cup Diagonal)

\* X has moved once more than O
IsTurnOfO(board) == CountOf(board, "X") = CountOf(board, "O") + 1

\* a step in which ai_plays("O", ...) was called on a 3x3 board without a winner
AiStepOfO ==
    /\ pc = "ai" /\ pc' = "result" /\ ai_player = "O"
    /\ IsDefaultShape(new_board) /\ NoRun(new_board)

(* C5: on a 3x3 board with no winner and an empty cell, ai_plays("O", ...) *)
(* installs the board of the empty cell whose eval_play score (X to move,  *)
(* depth 1, window -999999..999999) is least, and of the first such cell   *)
(* in row-major order when several share the least score.                  *)
C5_FirstMinimalScore ==
    [][AiStepOfO =>
        \E idx \in EmptyFields(new_board) :
            /\ new_board' = NextBoard(new_board, idx, "O")
            /\ LET chosen == ScoreOfMove(new_board, idx, "O")
               IN  \A j \in EmptyFields(new_board) \ {idx} :
                      LET score == ScoreOfMove(new_board, j, "O")
                      IN  IF j < idx THEN score > chosen ELSE score >= chosen]_vars

\* ai_plays("O", ...) has moved on a board that held no O, to a cell that
\* shares the least score with a later empty cell
C5_Witness ==
    /\ pc = "result" /\ ai_player = "O" /\ turn = 0
    /\ CountOf(new_board, "O") = 1
    /\ \E idx \in Fields(new_board) :
          /\ ElementAt(new_board, idx) = "O"
          /\ LET before == NextBoard(new_board, idx, " ")
             IN  /\ NoRun(before)
                 /\ \E j \in EmptyFields(new_board) :
                       /\ j > idx
                       /\ ScoreOfMove(before, j, "O") = ScoreOfMove(before, idx, "O")

(* C6: on a 3x3 board with no winner where it is O's move and some line    *)
(* holds two O and an empty cell, ai_plays("O", ...) completes such a      *)
(* line: the board it installs has get_winner() < 0.                       *)
C6_CompletesOpenLine ==
    [][(AiStepOfO /\ IsTurnOfO(new_board) /\ HasOpenLine(new_board, "O"))
        => get_winner(new_board') < 0]_vars

\* C6 as amended: under the same conditions the board ai_plays installs is
\* one from which O has won or wins against every play of X: its eval_play
\* score with X to move is negative (the completing move is not preferred to
\* an earlier cell with the same score).
C6_WinsByForce ==
    [][(AiStepOfO /\ IsTurnOfO(new_board) /\ HasOpenLine(new_board, "O"))
        => eval_play(new_board', "X", 1, 0 - INFINITE, INFINITE) < 0]_vars

\* O could have completed the last column and has moved to the first cell
C6_Witness ==
    /\ pc = "result" /\ ai_player = "O" /\ turn = 0
    /\ new_board.game_board[0] = [c \in 0..2 |-> IF c = 0 THEN "O" ELSE " "]
    /\ new_board.game_board[1] = [c \in 0..2 |-> IF c = 0 THEN "X" ELSE IF c = 1 THEN " " ELSE "O"]
    /\ new_board.game_board[2] = [c \in 0..2 |-> IF c = 2 THEN "O" ELSE "X"]

(* C7: on a 3x3 board with no winner where it is O's move, some line holds *)
(* two X and an empty cell and no line holds two O and an empty cell,      *)
(* ai_plays("O", ...) puts O on the empty cell of a line that holds two X. *)
C7_BlocksOpenLine ==
    [][(AiStepOfO /\ IsTurnOfO(new_board) /\ HasOpenLine(new_board, "X")
            /\ ~HasOpenLine(new_board, "O"))
        => \E line \in LinesOf(new_board) :
              /\ OpenLine(new_board, line, "X")
              /\ \A idx \in line : ElementAt(new_board', idx) # " "]_vars

\* C7 as amended: under the same conditions, and when not every move of O
\* loses by force (some empty cell has a score that is not positive),
\* ai_plays("O", ...) puts O on the empty cell of a line that holds two X.
C7_BlocksUnlessLost ==
    [][(/\ AiStepOfO /\ IsTurnOfO(new_board) /\ HasOpenLine(new_board, "X")
        /\ ~HasOpenLine(new_board, "O")
        /\ \E idx \in EmptyFields(new_board) : ScoreOfMove(new_board, idx, "O") <= 0)
        => \E line \in LinesOf(new_board) :
              /\ OpenLine(new_board, line, "X")
              /\ \A idx \in line : ElementAt(new_board', idx) # " "]_vars

\* X held the first two cells of the first row and O has taken the third
C7_Witness ==
    /\ pc = "result" /\ ai_player = "O" /\ turn = 0
    /\ new_board.game_board[0] = [c \in 0..2 |-> IF c = 2 THEN "O" ELSE "X"]
    /\ new_board.game_board[1] = [c \in 0..2 |-> IF c = 0 THEN "O" ELSE IF c = 1 THEN " " ELSE "X"]
    /\ new_board.game_board[2] = [c \in 0..2 |-> IF c = 2 THEN "O" ELSE " "]

(* C8: whenever ai_plays(player, board) is called on a board with an empty *)
(* cell, the board it installs differs from board in exactly one cell,     *)
(* which was empty and now holds player; the dimensions and the win length *)
(* are those of board.                                                     *)
C8_ExactlyOneMove ==
    [][(pc = "ai" /\ pc' = "result") =>
        /\ new_board'.no_rows = new_board.no_rows
        /\ new_board'.no_columns = new_board.no_columns
        /\ new_board'.number_to_win = new_board.number_to_win
        /\ DOMAIN new_board'.game_board = Rows(new_board)
        /\ \A r \in Rows(new_board) : DOMAIN new_board'.game_board[r] = Columns(new_board)
        /\ \E idx \in Fields(new_board) :
              /\ ElementAt(new_board, idx) = " "
              /\ ElementAt(new_board', idx) = ai_player
              /\ \A j \in Fields(new_board) \ {idx} :
                    ElementAt(new_board', j) = ElementAt(new_board, j)]_vars

\* ai_plays("X", ...) has moved on a board that O had already won
C8_Witness ==
    /\ pc = "result" /\ ai_player = "X" /\ turn = 0
    /\ HasRun(new_board, "O", Straight \cup Diagonal)
    /\ CountOf(new_board, "X") >= 1

-----------------------------------------------------------------------------
(* The claims about the turn loop *)

(* C9: no state of the game played by the loop from the empty 3x3 board    *)
(* holds a winning run of X and a winning run of O at once.                *)
C9_NeverBothWin ==
    ~(HasRun(new_board, "X", Straight \cup Diagonal)
      /\ HasRun(new_board, "O", Straight \cup Diagonal))

\* the loop has ended on a board with a winning run
C9_Witness ==
    /\ pc = "end" /\ outcome = "O wins"
    /\ HasRun(new_board, "O", Straight \cup Diagonal)

(* C10: in every step of the game loop the board keeps its rows x columns  *)
(* cells, and a cell that holds X or O keeps what it holds: a cell only    *)
(* ever changes from empty to X or O.                                      *)
C10_CellsOnlyFill ==
    [][/\ new_board'.no_rows = new_board.no_rows
       /\ new_board'.no_columns = new_board.no_columns
       /\ DOMAIN new_board'.game_board = Rows(new_board)
       /\ \A r \in Rows(new_board) :
             /\ DOMAIN new_board'.game_board[r] = Columns(new_board)
             /\ \A c \in Columns(new_board) :
                   /\ new_board'.game_board[r][c] \in {" ", "X", "O"}
                   /\ new_board.game_board[r][c] # " "
                      => new_board'.game_board[r][c] = new_board.game_board[r][c]]_vars

\* the human's input was rejected on a board that holds X and O
C10_Witness ==
    /\ pc = "human" /\ ret = "False"
    /\ CountOf(new_board, "X") >= 2 /\ CountOf(new_board, "O") >= 2

(* C11: in every run of the game loop ai_plays is called only on a board   *)
(* without a winner (get_winner() = 0, no run of either symbol) that has   *)
(* an empty cell, so the call always installs a board: min() of an empty   *)
(* list is never reached, and the only exceptions are those of the human's *)
(* turn.                                                                   *)
C11_AiOnlyOnOpenBoard ==
    /\ pc = "ai" => /\ get_winner(new_board) = 0
                    /\ NoRun(new_board)
                    /\ ~is_every_field_filled(new_board)
                    /\ EmptyFields(new_board) # {}
    /\ pc = "raised" => turn % 2 = 1

\* ai_plays is about to be called on the board with the fewest empty cells
\* it ever sees
C11_Witness ==
    /\ pc = "ai" /\ turn = 8
    /\ CountOf(new_board, " ") = 2

(* C12: while ai_plays and the calls of eval_play below it run, and after  *)
(* each of them has returned (at the end of its loop or by the break), the *)
(* board object a call was given holds what it held when the call was      *)
(* made; no two running calls have the same object; and the boards kept in *)
(* possible_states are objects of their own, each the board ai_plays was   *)
(* given with one more symbol of player, no two alike.                     *)
C12_BoardsNotShared ==
    stack # <<>> =>
        /\ \A k \in 1..Len(stack) : heap[stack[k].board] = stack[k].entry
        /\ \A j, k \in 1..Len(stack) : j # k => stack[j].board # stack[k].board
        /\ LET called == stack[1]
               kept == called.possible_states
           IN  /\ called.fn = "ai_plays"
               /\ \A k \in 1..Len(kept) :
                     /\ kept[k].board # called.board
                     /\ heap[kept[k].board]
                           \in {NextBoard(called.entry, idx, called.player) :
                                   idx \in EmptyFields(called.entry)}
                     /\ \A j \in 1..Len(kept) :
                           j # k => /\ kept[j].board # kept[k].board
                                    /\ heap[kept[j].board] # heap[kept[k].board]

\* a call of eval_play is about to return by the break, an empty cell of its
\* board not yet tried, and its board is as it was given
C12_Witness ==
    /\ pc = "copy" /\ Len(stack) > 2
    /\ Top.fn = "eval_play" /\ Top.at = "return"
    /\ get_winner(heap[Top.board]) = 0
    /\ \E idx \in EmptyFields(heap[Top.board]) : idx >= Top.idx
    /\ heap[Top.board] = Top.entry
    /\ Len(stack[1].possible_states) >= 1

(* C13: on a board with get_winner() # 0, eval_play returns get_winner()   *)
(* whatever the player, the depth and the window are, also on a full board *)
(* and beyond MAX_DEPTH; on a board with get_winner() = 0 it returns 0     *)
(* when the board is full or the depth is greater than MAX_DEPTH; and      *)
(* lines 160-170 of the loop, run on a full board on which one symbol has  *)
(* a run, announce the win of that symbol, not the draw.                   *)
C13_WinnerBeforeFullBeforeDepth ==
    /\ pc = "evaluated" =>
          /\ get_winner(new_board) # 0 => ret.value = get_winner(new_board)
          /\ (/\ get_winner(new_board) = 0
              /\ is_every_field_filled(new_board) \/ ret.depth > MAX_DEPTH)
             => ret.value = 0
    /\ (pc = "end" /\ is_every_field_filled(new_board)) =>
          \A symbol \in Symbols :
              (/\ HasRun(new_board, symbol, Straight \cup Diagonal)
               /\ ~HasRun(new_board, Other(symbol), Straight \cup Diagonal))
              => outcome = IF symbol = "X" THEN "X wins" ELSE "O wins"

\* eval_play has returned the win of X for a full board deeper than MAX_DEPTH
C13_Witness ==
    /\ pc = "evaluated"
    /\ is_every_field_filled(new_board)
    /\ HasRun(new_board, "X", Straight \cup Diagonal)
    /\ ret.depth > MAX_DEPTH
    /\ ret.value = PLAYER_X_WON

(* C14: on every board whose win length is greater than its number of     *)
(* rows and than its number of columns, whatever the cells hold, the scan  *)
(* of the rows, of the columns and of the diagonals each return 0 and so   *)
(* does get_winner(): such a board never has a winner.                     *)
C14_NoWinnerWhenTooLong ==
    (/\ pc = "board"
     /\ new_board.number_to_win > new_board.no_rows
     /\ new_board.number_to_win > new_board.no_columns)
    => /\ _examine_rows(new_board) = 0
       /\ _examine_columns(new_board) = 0
       /\ _examine_diagonals(new_board) = 0
       /\ get_winner(new_board) = 0

\* a full 2x2 board of X alone with win length 3
C14_Witness ==
    /\ pc = "board"
    /\ new_board.no_rows = 2 /\ new_board.no_columns = 2
    /\ new_board.number_to_win = 3
    /\ CountOf(new_board, "X") = 4
    /\ get_winner(new_board) = 0

-----------------------------------------------------------------------------
(* The claims about the values of the search *)

SetMax(S) == CHOOSE m \in S : \A n \in S : n <= m
SetMin(S) == CHOOSE m \in S : \A n \in S : m <= n

\* minimax without pruning and without a depth: a board with a winner is
\* worth get_winner(), a full board 0, any other board the greatest (player
\* "X") or the least (player "O") of the worths of the boards one move on
RECURSIVE PlainMinimax(_, _)
PlainMinimax(board, player) ==
    LET winner == get_winner(board)
        empty == {idx \in 0..(NumberOfFields(board) - 1) : ElementAt(board, idx) = " "}
        worths == {PlainMinimax(NextBoard(board, idx, player), Other(player)) :
                      idx \in empty}
    IN  IF winner # 0 THEN winner
        ELSE IF empty = {} THEN 0
        ELSE IF player = "X" THEN SetMax(worths) ELSE SetMin(worths)

(* C15: for every 3x3 board reached from the empty board by alternating    *)
(* moves, X first, none after a win, and the player to move on it,         *)
(* eval_play with the window -999999 .. 999999 returns the value of plain  *)
(* minimax; the deepest call below it has a depth of at most MAX_DEPTH, so *)
(* the cutoff is never taken.                                              *)
C15_AlphaBetaIsMinimax ==
    pc = "search" =>
        /\ eval_play(new_board, ai_player, turn + 1, 0 - INFINITE, INFINITE)
              = PlainMinimax(new_board, ai_player)
        /\ turn + 1 + CountOf(new_board, " ") <= MAX_DEPTH

\* a board on which the pruning cuts branches: X to move wins at once in the
\* first empty cell, so alpha is 100 below every later cell and the loop of
\* O there breaks after its first child
C15_Witness ==
    /\ pc = "search" /\ ai_player = "X" /\ turn = 4
    /\ new_board.game_board[0] = [c \in 0..2 |-> IF c = 2 THEN " " ELSE "X"]
    /\ new_board.game_board[1] = [c \in 0..2 |-> IF c = 2 THEN " " ELSE "O"]
    /\ eval_play(new_board, "X", turn + 1, 0 - INFINITE, INFINITE) = PLAYER_X_WON

(* C16: on every 3x3 board reached from the empty board by alternating     *)
(* moves, X first, none after a win, get_winner() is one of PLAYER_X_WON,  *)
(* PLAYER_O_WON and NO_ONE_WON.                                            *)
C16_WinnerIsOneOfThree ==
    pc = "search" => get_winner(new_board) \in {PLAYER_X_WON, PLAYER_O_WON, NO_ONE_WON}

(* C17: the human moves on odd turns and the computer on even turns; an    *)
(* input that insert_symbol rejects leaves the turn counter and the board  *)
(* as they were and asks the human again; in every state the number of X   *)
(* minus the number of O is 0 or 1, and once the move of turn t is made    *)
(* the board holds exactly t symbols (t - 1 before it).                    *)
C17_StrictAlternation ==
    /\ [](/\ CountOf(new_board, "X") - CountOf(new_board, "O") \in {0, 1}
          /\ pc = "human" => turn % 2 = 1
          /\ pc = "ai" => turn % 2 = 0
          /\ pc \in {"result", "while", "end"}
                => CountOf(new_board, "X") + CountOf(new_board, "O") = turn
          /\ pc \in {"human", "ai", "raised"}
                => CountOf(new_board, "X") + CountOf(new_board, "O") = turn - 1)
    /\ [][/\ (pc = "human" /\ ret' = "False" /\ pc' # "raised")
               => (turn' = turn /\ new_board' = new_board /\ pc' = "human")
          /\ (pc = "human" /\ pc' = "result")
               => CountOf(new_board', "X") = CountOf(new_board, "X") + 1
          /\ (pc = "ai" /\ pc' = "result")
               => CountOf(new_board', "O") = CountOf(new_board, "O") + 1]_vars

\* the human's input was rejected on turn 3 and the human is asked again
C17_Witness ==
    /\ pc = "human" /\ ret = "False" /\ turn = 3
    /\ CountOf(new_board, "X") = 1 /\ CountOf(new_board, "O") = 1

(* C18: in the game of the loop (3x3, win length 3, the human X first with *)
(* any accepted moves, the computer O by ai_plays) no reachable board has  *)
(* get_winner() > 0 or a run of X, and a finished game ends with "O wins"  *)
(* or with a full board without a winner.                                  *)
C18_ComputerNeverLoses ==
    /\ get_winner(new_board) <= 0
    /\ ~HasRun(new_board, "X", Straight \cup Diagonal)
    /\ pc = "end" =>
          \/ outcome = "O wins" /\ HasRun(new_board, "O", Straight \cup Diagonal)
          \/ outcome = "No one wins" /\ is_every_field_filled(new_board)
                                      /\ NoRun(new_board)

\* a game played to the full board without a winner
C18_Witness ==
    /\ pc = "end" /\ outcome = "No one wins" /\ turn = 9
    /\ is_every_field_filled(new_board)

(* C19: with the human entering an accepted move sooner or later on each   *)
(* of their turns, every run of the loop ends (normally, or by the         *)
(* exception of an input that is no valid index); the turn counter never   *)
(* exceeds rows x columns, the loop goes on only from boards without a     *)
(* winner that are not full, and no step changes a board that has a        *)
(* winner or is full.                                                      *)
C19_LoopTerminates ==
    /\ [](/\ turn <= NumberOfFields(new_board)
          /\ pc \in {"while", "human", "ai"}
                => (get_winner(new_board) = 0 /\ ~is_every_field_filled(new_board))
          /\ pc = "end"
                => (get_winner(new_board) # 0 \/ is_every_field_filled(new_board)))
    /\ [][(get_winner(new_board) # 0 \/ is_every_field_filled(new_board))
            => new_board' = new_board]_vars
    /\ <>(pc \in {"end", "raised"})

\* the loop has ended after the ninth turn
C19_Witness ==
    /\ pc = "end" /\ turn = 9 /\ CountOf(new_board, "X") = 5

====
